---- MODULE Spec2Model ----
(***************************************************************************)
(* Model of the video API of cab432-a2-api: routes/videoRoutes.js          *)
(* (src/unnamed/part_000 lines 96-323), middleware/requireAuth.js          *)
(* (src/unnamed/part_001 lines 1-18) and the mounting in src/src/index.js. *)
(*                                                                         *)
(* Every await of a handler is one step of the request, so that requests   *)
(* interleave exactly where the Node event loop lets them interleave.      *)
(* The two stores (S3 bucket, videos table) and the two local directories  *)
(* (uploads/raw, uploads/processed) are the shared state.                  *)
(***************************************************************************)
EXTENDS Naturals, FiniteSets, Sequences, TLC

(* ---------------- bounds of the model ---------------- *)
MaxUploads == 2        \* concurrent POST /upload requests
MaxDeletes == 1        \* concurrent DELETE /:id requests
MaxOneShot == 1        \* single-query requests (list, stream, raw url, save)

(* ---------------- program constants ---------------- *)
MAX_MB == 200                          \* part_000:140 (default of MAX_UPLOAD_MB)
FileSizeLimit == MAX_MB * 1024 * 1024  \* part_000:144
ExpiresIn == 3600                      \* part_000:238, 265

(* ---------------- input domains ---------------- *)
Names == {"clip.mov", "b.mov"}
Mimes == {"video/quicktime", "application/pdf"}
Sizes == {10 * 1024 * 1024, FileSizeLimit + 1}
\* sizes of the file ffmpeg leaves: smaller than the upload, or as large
ProcSizes == {4 * 1024 * 1024, 10 * 1024 * 1024}
\* Authorization headers as auth.split(" ") sees them: absent, scheme only,
\* wrong scheme, lower-case scheme, bad signature, good token.
Headers == {<<>>, <<"Bearer">>, <<"Basic", "good">>, <<"bearer", "good">>,
            <<"Bearer", "bad">>, <<"Bearer", "good">>}

NullKey == <<>>        \* SQL NULL in the s3_key column
NoResp == [status |-> 0, error |-> "", rows |-> <<>>]

VARIABLES
  up,         \* up[r]: the POST /upload request r (position, req.file, req.user, response)
  del,        \* del[d]: the DELETE /:id request d
  s3,         \* the bucket: key -> object, defined on the keys that hold an object
  videos,     \* the rows of table videos
  rawDir,     \* uploads/raw: the staged file names (uuids) present
  outDir,     \* uploads/processed: file name -> the uploads whose ffmpeg wrote it
  uuidCalls,  \* number of uuid() values drawn so far
  inserts,    \* number of rows inserted so far (the clock behind uploaded_at)
  shots,      \* number of single-query requests served
  last        \* the last single-query request and its response

vars == <<up, del, s3, videos, rawDir, outDir, uuidCalls, inserts, shots, last>>

(* ---------------- pure helpers ---------------- *)

\* part_001:6-7  const [type, token] = auth.split(" ")
HeaderType(h) == IF Len(h) >= 1 THEN h[1] ELSE ""
HeaderToken(h) == IF Len(h) >= 2 THEN h[2] ELSE ""

\* jwt.verify(token, JWT_SECRET): returns the payload of a token signed with
\* the secret, throws otherwise.
JwtVerifies(token) == token = "good"

\* part_001:5-18  requireAuth: next() with req.user set, or a 401 answer.
requireAuth(h) ==
  IF HeaderType(h) # "Bearer" \/ HeaderToken(h) = ""
  THEN [next |-> FALSE, status |-> 401, error |-> "Missing bearer token"]
  ELSE IF JwtVerifies(HeaderToken(h))
  THEN [next |-> TRUE, status |-> 0, error |-> ""]
  ELSE [next |-> FALSE, status |-> 401, error |-> "Invalid or expired token"]

\* part_000:135-138  /^video\//.test(file.mimetype)
fileFilter(mime) == mime \in {"video/quicktime", "video/mp4"}

\* part_000:153-154
rawKey(name) == <<"raw", name>>
processedKey(name) == <<"processed", name>>

\* uuid(): a value never returned before.
uuid == uuidCalls + 1

\* S3 PutObject / DeleteObject on the bucket
Put(bucket, key, obj) ==
  [k \in DOMAIN bucket \cup {key} |-> IF k = key THEN obj ELSE bucket[k]]

Remove(bucket, key) == [k \in DOMAIN bucket \ {key} |-> bucket[k]]

\* the bytes of the staged upload of request r, and of a file in
\* uploads/processed written by the ffmpeg processes of the requests in W
RawBytes(r) == [kind |-> "raw", src |-> {r}]
OutBytes(W) == [kind |-> "out", src |-> W]

Exists(dir, name) == name \in DOMAIN dir

IdleUp == [pc |-> "idle", user |-> "", originalname |-> "", mimetype |-> "",
           size |-> 0, path |-> 0, ino |-> 0, rowId |-> 0, err |-> "",
           failed |-> "", resp |-> NoResp, steps |-> <<>>]

\* hadObject records whether the bucket held an object at s3Key when the row
\* was looked up (not program state: kept to state the delete contract)
IdleDel == [pc |-> "idle", user |-> "", id |-> 0, s3Key |-> NullKey, found |-> FALSE,
            hadObject |-> FALSE, err |-> "", failed |-> "", resp |-> NoResp,
            steps |-> <<>>]

\* the state after startup with pools of nu upload and nd delete requests:
\* empty bucket, empty table, empty upload directories (part_000:116-123)
Start(nu, nd) ==
  /\ up = [r \in 1..nu |-> IdleUp]
  /\ del = [d \in 1..nd |-> IdleDel]
  /\ s3 = <<>>
  /\ videos = {}
  /\ rawDir = {}
  /\ outDir = <<>>
  /\ uuidCalls = 0
  /\ inserts = 0
  /\ shots = 0
  /\ last = [op |-> "", status |-> 0, key |-> NullKey, ids |-> <<>>, expiresIn |-> 0]

Init == Start(MaxUploads, MaxDeletes)
\* one upload fewer: the pool for the properties of the delete route alone
InitOneLess == Start(MaxUploads - 1, MaxDeletes)

(* ---------------- POST /upload (part_000:150-211) ---------------- *)

\* src/index.js mounts no error-handling middleware, so an error a middleware
\* passes to next(err) reaches Express's default handler: err.status is
\* undefined for Error and MulterError, and the answer is 500.
DefaultErrorHandler(e) == [status |-> 500, error |-> "Internal Server Error", rows |-> <<>>]

\* part_000:207-210  the catch block of the upload handler: every rejection of
\* the try block is answered the same way, and nothing is undone.
UploadCatch(req) ==
  [req EXCEPT !.pc = "done",
              !.resp = [status |-> 500, error |-> "Upload failed", rows |-> <<>>]]

\* a step of the handler that completed, and one that threw e
Step(req, name, next) == [req EXCEPT !.pc = next, !.steps = Append(@, name)]
Throw(req, name, e) == [req EXCEPT !.steps = Append(@, name), !.failed = name, !.err = e]

\* requests are numbered in order of arrival
Arrives(pool, r) == pool[r].pc = "idle" /\ \A q \in DOMAIN pool : q < r => pool[q].pc # "idle"

\* part_000:150 + part_001:5-18 + part_000:126-145  the middleware chain of
\* the upload route. requireAuth answers 401 or calls next() synchronously;
\* upload.single("video") then runs fileFilter and lets diskStorage write the
\* stream to uploads/raw/<uuid><ext> under the fileSize limit. A file that
\* exceeds the limit is removed again by multer before next(err). The chain
\* touches nothing another request reads until the file is staged.
UploadReceive(r) ==
  /\ Arrives(up, r)
  /\ \E h \in Headers, name \in Names, mime \in Mimes, size \in Sizes :
       LET a == requireAuth(h) IN
       IF ~a.next
       THEN /\ up' = [up EXCEPT ![r] =
                        [@ EXCEPT !.pc = "done", !.err = a.error,
                                  !.resp = [status |-> a.status, error |-> a.error,
                                            rows |-> <<>>]]]
            /\ UNCHANGED <<rawDir, uuidCalls>>
       ELSE IF ~fileFilter(mime)
       THEN /\ up' = [up EXCEPT ![r] =
                        [@ EXCEPT !.pc = "done", !.user = "u1",
                                  !.err = "Only video files are allowed",
                                  !.resp = DefaultErrorHandler(@.err)]]
            /\ UNCHANGED <<rawDir, uuidCalls>>
       ELSE IF size > FileSizeLimit
       THEN /\ up' = [up EXCEPT ![r] =
                        [@ EXCEPT !.pc = "done", !.user = "u1", !.err = "LIMIT_FILE_SIZE",
                                  !.resp = DefaultErrorHandler(@.err)]]
            /\ uuidCalls' = uuidCalls + 1
            /\ UNCHANGED rawDir
       ELSE /\ up' = [up EXCEPT ![r] =
                        [Step(@, "stage", "putRaw") EXCEPT
                           !.user = "u1", !.originalname = name, !.mimetype = mime,
                           !.size = size, !.path = uuid]]
            /\ uuidCalls' = uuidCalls + 1
            /\ rawDir' = rawDir \cup {uuid}
  /\ UNCHANGED <<del, s3, videos, outDir, inserts, shots, last>>

\* PutRaw with one automatic retry of a rejected put
PutRawRetry(r) ==
  /\ up[r].pc = "putRaw"
  /\ \/ /\ s3' = Put(s3, rawKey(up[r].originalname),
                     [body |-> RawBytes(r), contentType |-> up[r].mimetype,
                      size |-> up[r].size])
        /\ up' = [up EXCEPT ![r] = Step(@, "putRaw", "ffmpeg")]
     \/ /\ up' = [up EXCEPT ![r] =
                    IF @.failed = "" THEN Throw(@, "putRaw", "S3 put failed")
                    ELSE UploadCatch(Throw(@, "putRaw", "S3 put failed"))]
        /\ UNCHANGED s3
  /\ UNCHANGED <<del, videos, rawDir, outDir, uuidCalls, inserts, shots, last>>

\* part_000:156-162  PutObject raw/<originalname> from the staged file
PutRaw(r) ==
  /\ up[r].pc = "putRaw"
  /\ \/ /\ s3' = Put(s3, rawKey(up[r].originalname),
                     [body |-> RawBytes(r), contentType |-> up[r].mimetype,
                      size |-> up[r].size])
        /\ up' = [up EXCEPT ![r] = Step(@, "putRaw", "ffmpeg")]
     \/ /\ up' = [up EXCEPT ![r] = UploadCatch(Throw(@, "putRaw", "S3 put failed"))]
        /\ UNCHANGED s3
  /\ UNCHANGED <<del, videos, rawDir, outDir, uuidCalls, inserts, shots, last>>

\* part_000:165-168  exec(ffmpeg -i file.path ... processedPath -y): the child
\* process creates, or truncates, uploads/processed/<originalname>.
ExecFfmpeg(r) ==
  /\ up[r].pc = "ffmpeg"
  /\ LET name == up[r].originalname
         ino == IF Exists(outDir, name) THEN outDir[name].ino ELSE r IN
       /\ outDir' = Put(outDir, name, [ino |-> ino, src |-> {r}, size |-> 0])
       /\ up' = [up EXCEPT ![r] = [Step(@, "ffmpeg", "encoding") EXCEPT !.ino = ino]]
  /\ UNCHANGED <<del, s3, videos, rawDir, uuidCalls, inserts, shots, last>>

\* FfmpegExit with a catch path that rolls the raw upload back
FfmpegExitRollback(r) ==
  /\ up[r].pc = "encoding"
  /\ LET name == up[r].originalname IN
     \/ /\ \E size \in ProcSizes :
             outDir' = IF Exists(outDir, name) /\ outDir[name].ino = up[r].ino
                       THEN [outDir EXCEPT ![name].src = @ \cup {r}, ![name].size = size]
                       ELSE outDir
        /\ up' = [up EXCEPT ![r] = Step(@, "ffmpegExit", "putProcessed")]
        /\ UNCHANGED s3
     \/ /\ up' = [up EXCEPT ![r] = UploadCatch(Throw(@, "ffmpegExit", "ffmpeg failed"))]
        /\ s3' = Remove(s3, rawKey(name))
        /\ UNCHANGED outDir
  /\ UNCHANGED <<del, videos, rawDir, uuidCalls, inserts, shots, last>>

\* part_000:168-171  the exec callback: reject(error) on a non-zero exit,
\* resolve() otherwise. What the process wrote went to the file it had opened,
\* which is the file of that name only while nobody unlinked it.
FfmpegExit(r) ==
  /\ up[r].pc = "encoding"
  /\ LET name == up[r].originalname IN
     \/ /\ \E size \in ProcSizes :
             outDir' = IF Exists(outDir, name) /\ outDir[name].ino = up[r].ino
                       THEN [outDir EXCEPT ![name].src = @ \cup {r}, ![name].size = size]
                       ELSE outDir
        /\ up' = [up EXCEPT ![r] = Step(@, "ffmpegExit", "putProcessed")]
     \/ /\ up' = [up EXCEPT ![r] = UploadCatch(Throw(@, "ffmpegExit", "ffmpeg failed"))]
        /\ UNCHANGED outDir
  /\ UNCHANGED <<del, s3, videos, rawDir, uuidCalls, inserts, shots, last>>

\* part_000:175-180  the object sent from the file at processedPath
ProcessedObject(file) ==
  [body |-> OutBytes(file.src), contentType |-> "video/mp4", size |-> file.size]

\* PutProcessed with the rejection of the put swallowed: the handler goes on
\* to the cleanup and the insert.
PutProcessedSwallow(r) ==
  /\ up[r].pc = "putProcessed"
  /\ LET name == up[r].originalname IN
     \/ /\ Exists(outDir, name)
        /\ s3' = Put(s3, processedKey(name), ProcessedObject(outDir[name]))
        /\ up' = [up EXCEPT ![r] = Step(@, "putProcessed", "cleanup")]
     \/ /\ up' = [up EXCEPT ![r] =
                    [Throw(@, "putProcessed", "S3 put failed") EXCEPT !.pc = "cleanup"]]
        /\ UNCHANGED s3
  /\ UNCHANGED <<del, videos, rawDir, outDir, uuidCalls, inserts, shots, last>>

\* part_000:174-180  PutObject processed/<originalname> from processedPath;
\* createReadStream of a missing file makes the send reject (ENOENT).
PutProcessed(r) ==
  /\ up[r].pc = "putProcessed"
  /\ LET name == up[r].originalname IN
     \/ /\ Exists(outDir, name)
        /\ s3' = Put(s3, processedKey(name), ProcessedObject(outDir[name]))
        /\ up' = [up EXCEPT ![r] = Step(@, "putProcessed", "cleanup")]
     \/ /\ up' = [up EXCEPT ![r] =
                    UploadCatch(Throw(@, "putProcessed",
                                      IF Exists(outDir, name) THEN "S3 put failed"
                                      ELSE "ENOENT"))]
        /\ UNCHANGED s3
  /\ UNCHANGED <<del, videos, rawDir, outDir, uuidCalls, inserts, shots, last>>

\* Cleanup with the two try/catch wrappers missing: an unlinkSync that throws
\* (ENOENT, the file is already gone) reaches the catch block of the handler.
CleanupPropagate(r) ==
  /\ up[r].pc = "cleanup"
  /\ rawDir' = rawDir \ {up[r].path}
  /\ outDir' = Remove(outDir, up[r].originalname)
  /\ up' = [up EXCEPT ![r] =
              IF up[r].path \in rawDir /\ Exists(outDir, up[r].originalname)
              THEN Step(@, "cleanup", "insert")
              ELSE UploadCatch(Throw(@, "cleanup", "ENOENT"))]
  /\ UNCHANGED <<del, s3, videos, uuidCalls, inserts, shots, last>>

\* part_000:182-184  unlinkSync of both local files, errors ignored
Cleanup(r) ==
  /\ up[r].pc = "cleanup"
  /\ rawDir' = rawDir \ {up[r].path}
  /\ outDir' = Remove(outDir, up[r].originalname)
  /\ up' = [up EXCEPT ![r] = Step(@, "cleanup", "insert")]
  /\ UNCHANGED <<del, s3, videos, uuidCalls, inserts, shots, last>>

\* part_000:187-199  the row of INSERT INTO videos ... RETURNING *
NewRow(req, id, at) ==
  [id |-> id, s3_key |-> processedKey(req.originalname),
   original_name |-> req.originalname, mime |-> "video/mp4",
   size |-> req.size, owner_sub |-> req.user, uploaded_at |-> at,
   filename |-> "", user_id |-> ""]

\* part_000:186-205  the insert and the answer
InsertRow(r) ==
  /\ up[r].pc = "insert"
  /\ \/ LET row == NewRow(up[r], uuid, inserts + 1) IN
        /\ videos' = videos \cup {row}
        /\ uuidCalls' = uuidCalls + 1
        /\ inserts' = inserts + 1
        /\ up' = [up EXCEPT ![r] =
                    [Step(@, "insert", "done") EXCEPT
                       !.rowId = uuid,
                       !.resp = [status |-> 200, error |-> "", rows |-> <<row>>]]]
     \/ /\ up' = [up EXCEPT ![r] =
                    UploadCatch([Throw(@, "insert", "insert failed") EXCEPT
                                   !.rowId = uuid])]
        /\ uuidCalls' = uuidCalls + 1
        /\ UNCHANGED <<videos, inserts>>
  /\ UNCHANGED <<del, s3, rawDir, outDir, shots, last>>

(* ---------------- DELETE /:id (part_000:290-321) ---------------- *)

\* part_000:317-320  the catch block of the delete handler
DeleteCatch(req) ==
  [req EXCEPT !.pc = "done",
              !.resp = [status |-> 500, error |-> "Delete failed", rows |-> <<>>]]

\* SELECT ... FROM videos WHERE id = $1
SelectById(id) == {v \in videos : v.id = id}

\* the ids a caller can name: every uuid drawn so far and one never drawn
KnownIds == 1..(uuidCalls + 1)

\* DeleteLookup with the return in front of the 404 answer missing: the
\* handler answers 404 and goes on to the object delete.
DeleteLookupNoReturn(d) ==
  /\ Arrives(del, d)
  /\ \E h \in Headers, id \in KnownIds :
       LET a == requireAuth(h)
           rows == SelectById(id) IN
       IF ~a.next
       THEN del' = [del EXCEPT ![d] =
                      [@ EXCEPT !.pc = "done", !.err = a.error,
                                !.resp = [status |-> a.status, error |-> a.error,
                                          rows |-> <<>>]]]
       ELSE \/ del' = [del EXCEPT ![d] =
                         IF rows = {}
                         THEN [Step(@, "lookup", "s3del") EXCEPT
                                 !.user = "u1", !.id = id,
                                 !.resp = [status |-> 404, error |-> "Video not found",
                                           rows |-> <<>>]]
                         ELSE [Step(@, "lookup", "s3del") EXCEPT
                                 !.user = "u1", !.id = id, !.found = TRUE,
                                 !.s3Key = (CHOOSE v \in rows : TRUE).s3_key,
                                 !.hadObject =
                                    Exists(s3, (CHOOSE v \in rows : TRUE).s3_key)]]
            \/ del' = [del EXCEPT ![d] =
                         DeleteCatch([Throw(@, "lookup", "select failed") EXCEPT
                                        !.user = "u1", !.id = id])]
  /\ UNCHANGED <<up, s3, videos, rawDir, outDir, uuidCalls, inserts, shots, last>>

\* part_000:291-303 + part_001:5-18  requireAuth, then the lookup of the
\* row; 404 when there is none
DeleteLookup(d) ==
  /\ Arrives(del, d)
  /\ \E h \in Headers, id \in KnownIds :
       LET a == requireAuth(h)
           rows == SelectById(id) IN
       IF ~a.next
       THEN del' = [del EXCEPT ![d] =
                      [@ EXCEPT !.pc = "done", !.err = a.error,
                                !.resp = [status |-> a.status, error |-> a.error,
                                          rows |-> <<>>]]]
       ELSE \/ del' = [del EXCEPT ![d] =
                         IF rows = {}
                         THEN [Step(@, "lookup", "done") EXCEPT
                                 !.user = "u1", !.id = id,
                                 !.resp = [status |-> 404, error |-> "Video not found",
                                           rows |-> <<>>]]
                         ELSE [Step(@, "lookup", "s3del") EXCEPT
                                 !.user = "u1", !.id = id, !.found = TRUE,
                                 !.s3Key = (CHOOSE v \in rows : TRUE).s3_key,
                                 !.hadObject =
                                    Exists(s3, (CHOOSE v \in rows : TRUE).s3_key)]]
            \/ del' = [del EXCEPT ![d] =
                         DeleteCatch([Throw(@, "lookup", "select failed") EXCEPT
                                        !.user = "u1", !.id = id])]
  /\ UNCHANGED <<up, s3, videos, rawDir, outDir, uuidCalls, inserts, shots, last>>

\* DeleteS3 with the rejection of the object delete swallowed: the handler
\* goes on to delete the row.
DeleteS3Swallow(d) ==
  /\ del[d].pc = "s3del"
  /\ \/ /\ del[d].s3Key # NullKey
        /\ s3' = Remove(s3, del[d].s3Key)
        /\ del' = [del EXCEPT ![d] = Step(@, "s3del", "dbdel")]
     \/ /\ del' = [del EXCEPT ![d] =
                     [Throw(@, "s3del", "S3 delete failed") EXCEPT !.pc = "dbdel"]]
        /\ UNCHANGED s3
  /\ UNCHANGED <<up, videos, rawDir, outDir, uuidCalls, inserts, shots, last>>

\* part_000:305-311  DeleteObject at the row's s3_key. S3 answers success
\* whether or not the key held an object; a null Key is rejected by the client.
DeleteS3(d) ==
  /\ del[d].pc = "s3del"
  /\ \/ /\ del[d].s3Key # NullKey
        /\ s3' = Remove(s3, del[d].s3Key)
        /\ del' = [del EXCEPT ![d] = Step(@, "s3del", "dbdel")]
     \/ /\ del' = [del EXCEPT ![d] = DeleteCatch(Throw(@, "s3del", "S3 delete failed"))]
        /\ UNCHANGED s3
  /\ UNCHANGED <<up, videos, rawDir, outDir, uuidCalls, inserts, shots, last>>

\* part_000:313-316  DELETE FROM videos WHERE id = $1, then the answer
DeleteDb(d) ==
  /\ del[d].pc = "dbdel"
  /\ \/ /\ videos' = videos \ SelectById(del[d].id)
        /\ del' = [del EXCEPT ![d] =
                     [Step(@, "dbdel", "done") EXCEPT
                        !.resp = [status |-> 200, error |-> "", rows |-> <<>>]]]
     \/ /\ del' = [del EXCEPT ![d] = DeleteCatch(Throw(@, "dbdel", "delete failed"))]
        /\ UNCHANGED videos
  /\ UNCHANGED <<up, s3, rawDir, outDir, uuidCalls, inserts, shots, last>>

(* ---------------- single-query routes ---------------- *)

RECURSIVE NewestFirst(_)
\* ORDER BY uploaded_at DESC, as the sequence of the rows' ids
NewestFirst(rows) ==
  IF rows = {} THEN <<>>
  ELSE LET v == CHOOSE x \in rows : \A y \in rows : y.uploaded_at <= x.uploaded_at
       IN <<v.id>> \o NewestFirst(rows \ {v})

\* the answer of a single-query route; a signed url is the key it grants and
\* its lifetime in seconds
Answer(op, status, key, ids) ==
  [op |-> op, status |-> status, key |-> key, ids |-> ids,
   expiresIn |-> IF key = NullKey THEN 0 ELSE ExpiresIn]

\* part_000:213-225  GET /
List ==
  /\ shots < MaxOneShot
  /\ shots' = shots + 1
  /\ \/ last' = Answer("list", 200, NullKey, NewestFirst(videos))
     \/ last' = Answer("list", 500, NullKey, <<>>)
  /\ UNCHANGED <<up, del, s3, videos, rawDir, outDir, uuidCalls, inserts>>

\* part_000:227-244  GET /raw/<key>: presign raw/<key>; signing is a local
\* computation and never asks the bucket whether the key holds an object.
RawUrl ==
  /\ shots < MaxOneShot
  /\ shots' = shots + 1
  /\ \E name \in Names :
       \/ last' = Answer("rawurl", 200, rawKey(name), <<>>)
       \/ last' = Answer("rawurl", 500, NullKey, <<>>)
  /\ UNCHANGED <<up, del, s3, videos, rawDir, outDir, uuidCalls, inserts>>

\* Stream with a write in it: the row is stamped when its url is issued
StreamTouch ==
  /\ shots < MaxOneShot
  /\ shots' = shots + 1
  /\ \E id \in KnownIds :
       \/ LET rows == SelectById(id) IN
          /\ last' = IF rows = {} THEN Answer("stream", 404, NullKey, <<>>)
                     ELSE Answer("stream", 200, (CHOOSE v \in rows : TRUE).s3_key, <<>>)
          /\ videos' = (videos \ rows) \cup
                          {[v EXCEPT !.uploaded_at = inserts + 1] : v \in rows}
       \/ /\ last' = Answer("stream", 500, NullKey, <<>>)
          /\ UNCHANGED videos
  /\ UNCHANGED <<up, del, s3, rawDir, outDir, uuidCalls, inserts>>

\* part_000:246-273  GET /:id/stream
Stream ==
  /\ shots < MaxOneShot
  /\ shots' = shots + 1
  /\ \E id \in KnownIds :
       \/ LET rows == SelectById(id) IN
          last' = IF rows = {} THEN Answer("stream", 404, NullKey, <<>>)
                  ELSE Answer("stream", 200, (CHOOSE v \in rows : TRUE).s3_key, <<>>)
       \/ last' = Answer("stream", 500, NullKey, <<>>)
  /\ UNCHANGED <<up, del, s3, videos, rawDir, outDir, uuidCalls, inserts>>

\* part_000:275-288  POST /save: INSERT INTO videos (filename, user_id); the
\* route has no requireAuth in front of it. The table fills the columns the
\* statement does not name (id by its default, the others NULL) or rejects it.
Save ==
  /\ shots < MaxOneShot
  /\ shots' = shots + 1
  /\ \E filename \in Names :
       \/ /\ videos' = videos \cup
                 {[id |-> uuid, s3_key |-> NullKey, original_name |-> "", mime |-> "",
                   size |-> 0, owner_sub |-> "", uploaded_at |-> inserts + 1,
                   filename |-> filename, user_id |-> "u1"]}
          /\ uuidCalls' = uuidCalls + 1
          /\ inserts' = inserts + 1
          /\ last' = Answer("save", 200, NullKey, <<uuid>>)
       \/ /\ last' = Answer("save", 500, NullKey, <<>>)
          /\ UNCHANGED <<videos, uuidCalls, inserts>>
  /\ UNCHANGED <<up, del, s3, rawDir, outDir>>

Ingest ==
  \/ \E r \in DOMAIN up : UploadReceive(r)
  \/ \E r \in DOMAIN up : PutRaw(r)
  \/ \E r \in DOMAIN up : ExecFfmpeg(r)
  \/ \E r \in DOMAIN up : FfmpegExit(r)
  \/ \E r \in DOMAIN up : PutProcessed(r)
  \/ \E r \in DOMAIN up : Cleanup(r)
  \/ \E r \in DOMAIN up : InsertRow(r)

Delete ==
  \/ \E d \in DOMAIN del : DeleteLookup(d)
  \/ \E d \in DOMAIN del : DeleteS3(d)
  \/ \E d \in DOMAIN del : DeleteDb(d)

NextIngest == Ingest
NextDelete == Ingest \/ Delete
Next == Ingest \/ Delete \/ List \/ RawUrl \/ Stream \/ Save

Spec == Init /\ [][Next]_vars
SpecIngest == Init /\ [][NextIngest]_vars
SpecDelete == Init /\ [][NextDelete]_vars
SpecDeleteOnly == InitOneLess /\ [][NextDelete]_vars

\* the read routes beside the upload route
NextRead == Ingest \/ List \/ RawUrl \/ Stream
SpecRead == InitOneLess /\ [][NextRead]_vars

\* Every await of the upload handler on S3 or on the database settles, and
\* the synchronous steps run: weak fairness on each. The exit of the ffmpeg
\* child process is the child's doing, and exec is given no timeout
\* (part_000:168), so nothing makes FfmpegExit happen.
HandlerFairness ==
  \A r \in 1..MaxUploads :
    /\ WF_vars(PutRaw(r))
    /\ WF_vars(ExecFfmpeg(r))
    /\ WF_vars(PutProcessed(r))
    /\ WF_vars(Cleanup(r))
    /\ WF_vars(InsertRow(r))
SpecLive == Init /\ [][NextIngest]_vars /\ HandlerFairness

(* ======================= the claims ======================= *)

Range(seq) == {seq[i] : i \in DOMAIN seq}
Done(req) == req.pc = "done"
Succeeded(req) == Done(req) /\ req.resp.status = 200
\* the steps of a request that ingests
FullPipeline == <<"stage", "putRaw", "ffmpeg", "ffmpegExit", "putProcessed", "cleanup", "insert">>
\* the row a request inserted is in the table
HasRow(req) == \E v \in videos : v.id = req.rowId
\* a delete request that is between its object delete and its row delete
BeingDeleted(v) == \E d \in DOMAIN del : del[d].pc = "dbdel" /\ del[d].id = v.id
\* an answer of the 4xx class
ClientInputError(resp) == resp.status >= 400 /\ resp.status < 500
\* the upload was turned down by the fileFilter or by the size limit
Rejected(req) == req.err \in {"Only video files are allowed", "LIMIT_FILE_SIZE"}
\* the request met a failure of S3, of ffmpeg or of the database
Faulted(req) == req.err \in {"S3 put failed", "ffmpeg failed", "insert failed"}

\* C1 (referential integrity): every row of the table that no delete request
\* is in the middle of removing has an object in the bucket at its s3_key.
C1_ReferentialIntegrity ==
  \A v \in videos : ~BeingDeleted(v) => Exists(s3, v.s3_key)

\* C2 (id/key uniqueness): two distinct successful ingestions return records
\* with different ids and different storage keys.
C2_IdKeyUniqueness ==
  \A r, q \in DOMAIN up :
    (r # q /\ Succeeded(up[r]) /\ Succeeded(up[q]))
      => /\ up[r].resp.rows[1].id # up[q].resp.rows[1].id
         /\ up[r].resp.rows[1].s3_key # up[q].resp.rows[1].s3_key

\* C3 (deletion is all-or-nothing): when a delete request for an existing row,
\* whose object existed, answers, either it reports success and both the row
\* and the object are gone, or it reports failure and both are still there.
C3_DeleteAllOrNothing ==
  [][\A d \in DOMAIN del :
       (~Done(del[d]) /\ Done(del'[d]) /\ del'[d].found /\ del'[d].hadObject)
         => LET rowThere == \E v \in videos' : v.id = del'[d].id
                objThere == del'[d].s3Key \in DOMAIN s3'
            IN \/ del'[d].resp.status = 200 /\ ~rowThere /\ ~objThere
               \/ del'[d].resp.status # 200 /\ rowThere /\ objThere]_vars

\* C4 (ordering on create): every row the pipeline put in the table belongs to
\* a request whose processed put had succeeded before its insert, and a request
\* that failed at the raw put, the transcode or the processed put issued no
\* insert and has no row.
C4_OrderingOnCreate ==
  /\ \A v \in videos :
       v.s3_key # NullKey =>
         \E r \in DOMAIN up : /\ up[r].rowId = v.id
                              /\ up[r].steps = FullPipeline
                              /\ up[r].failed = ""
  /\ \A r \in DOMAIN up :
       up[r].failed \in {"putRaw", "ffmpegExit", "putProcessed"}
         => up[r].rowId = 0 /\ ~HasRow(up[r]) /\ "insert" \notin Range(up[r].steps)

C4_Witness ==
  \E r, q \in DOMAIN up :
    /\ HasRow(up[r]) /\ Succeeded(up[r])
    /\ up[q].failed = "putProcessed" /\ Done(up[q])

\* C5 (ordering on delete): a delete request whose object delete failed has
\* answered with a failure without issuing the row delete, and the row is still
\* in the table unless another delete request removed it.
C5_OrderingOnDelete ==
  \A d \in DOMAIN del :
    del[d].failed = "s3del"
      => /\ Done(del[d]) /\ del[d].resp.status = 500
         /\ "dbdel" \notin Range(del[d].steps)
         /\ \/ SelectById(del[d].id) # {}
            \/ \E e \in DOMAIN del : /\ e # d /\ del[e].id = del[d].id
                                     /\ "dbdel" \in Range(del[e].steps)
                                     /\ del[e].failed = ""

C5_Witness ==
  \E d \in DOMAIN del :
    /\ del[d].failed = "s3del" /\ del[d].hadObject
    /\ SelectById(del[d].id) # {} /\ del[d].resp.status = 500

\* C6 (rejection without side effects): an upload of a non-video type or over
\* the size limit is answered with a client-input error, and leaves the upload
\* directories, the bucket and the table as they were.
C6_RejectionWithoutSideEffects ==
  [][\A r \in DOMAIN up :
       (~Rejected(up[r]) /\ Rejected(up'[r]))
         => /\ ClientInputError(up'[r].resp)
            /\ UNCHANGED <<rawDir, outDir, s3, videos>>]_vars

\* C7 (concurrent ingestions of one name): two uploads of the same
\* originalName that meet no failure of S3, ffmpeg or the database both end
\* with their row inserted, under distinct ids, and the shared key holds an
\* object.
C7_SameNameBothInsert ==
  \A r, q \in DOMAIN up :
    (/\ r # q /\ Done(up[r]) /\ Done(up[q])
     /\ up[r].originalname # "" /\ up[r].originalname = up[q].originalname
     /\ ~Faulted(up[r]) /\ ~Faulted(up[q]))
      => /\ Succeeded(up[r]) /\ Succeeded(up[q])
         /\ up[r].rowId # up[q].rowId
         /\ Exists(s3, processedKey(up[r].originalname))

\* C8 (record lifecycle): a row enters the table only as the last step of an
\* ingestion whose earlier steps all succeeded, and leaves it only by the row
\* delete of a delete request.
C8_RecordLifecycle ==
  [][/\ \A v \in videos' \ videos :
          \E r \in DOMAIN up : /\ up[r].pc = "insert"
                               /\ up'[r].steps = FullPipeline
                               /\ up'[r].resp.rows = <<v>>
     /\ \A v \in videos \ videos' :
          \E d \in DOMAIN del : /\ del[d].pc = "dbdel" /\ del[d].id = v.id
                                /\ del'[d].resp.status = 200]_vars

\* C9 (transcoder failure): a request whose ffmpeg failed has answered with a
\* failure, issued no insert and has no row, and the bucket still holds a raw
\* object at its raw key.
C9_TranscoderFailure ==
  \A r \in DOMAIN up :
    up[r].failed = "ffmpegExit"
      => /\ Done(up[r]) /\ up[r].resp.status = 500
         /\ up[r].rowId = 0 /\ "insert" \notin Range(up[r].steps)
         /\ \A v \in videos : v.s3_key # NullKey =>
              \E q \in DOMAIN up : q # r /\ up[q].rowId = v.id
         /\ Exists(s3, rawKey(up[r].originalname))
         /\ s3[rawKey(up[r].originalname)].body.kind = "raw"

C9_Witness ==
  \E r \in DOMAIN up :
    /\ up[r].failed = "ffmpegExit" /\ Done(up[r])
    /\ s3[rawKey(up[r].originalname)].body = RawBytes(r)

\* C10 (error classification): the answers to a transcoder failure, to an
\* object-store put failure and to a metadata insert failure differ pairwise.
C10_ErrorClassification ==
  \A r, q \in DOMAIN up :
    LET class(req) == CASE req.failed = "ffmpegExit" -> "processing"
                        [] req.failed \in {"putRaw", "putProcessed"} -> "storage"
                        [] req.failed = "insert" -> "metadata"
                        [] OTHER -> ""
    IN (class(up[r]) # "" /\ class(up[q]) # "" /\ class(up[r]) # class(up[q]))
         => up[r].resp # up[q].resp

IsPrefix(s, t) == Len(s) <= Len(t) /\ \A i \in 1..Len(s) : s[i] = t[i]
\* a single-query request was served by this step
Served(ops) == shots' # shots /\ last'.op \in ops

\* C11 (record content on success): the record a successful ingestion returns
\* has the uploaded filename, mime video/mp4, a key in the processed
\* namespace, and the size of the processed object the key holds.
C11_RecordContent ==
  [][\A r \in DOMAIN up :
       (up[r].pc = "insert" /\ Succeeded(up'[r]))
         => LET v == up'[r].resp.rows[1] IN
            /\ v.original_name = up[r].originalname
            /\ v.mime = "video/mp4"
            /\ v.s3_key = <<"processed", up[r].originalname>>
            /\ Exists(s3, v.s3_key) => v.size = s3[v.s3_key].size]_vars

\* C12 (delete of an unknown id): a delete request that answered 404 has only
\* looked the row up, its answer is not the answer of a store failure, and a
\* request whose lookup finds no row answers 404 and leaves the bucket and the
\* table as they were.
C12_DeleteUnknownId ==
  [][\A d \in DOMAIN del :
       /\ del'[d].resp.status = 404
            => /\ Done(del'[d]) /\ del'[d].steps = <<"lookup">>
               /\ del'[d].resp # DeleteCatch(del'[d]).resp
       /\ (/\ del[d].pc = "idle" /\ del'[d].user # "" /\ del'[d].failed = ""
           /\ SelectById(del'[d].id) = {})
            => del'[d].resp.status = 404 /\ UNCHANGED <<s3, videos>>]_vars

C12_Witness ==
  \E d \in DOMAIN del : del[d].resp.status = 404 /\ videos # {}

\* C13 (access issuance not-found): a signed url is issued for a raw key only
\* when the bucket holds an object at it, and for an id only when the table
\* holds its row; otherwise the answer is 404.
C13_AccessNotFound ==
  [][(Served({"rawurl", "stream"}) /\ last'.status # 500)
       => IF last'.key # NullKey /\ Exists(s3, last'.key)
                                /\ (last'.op = "stream" =>
                                      \E v \in videos : v.s3_key = last'.key)
          THEN last'.status = 200
          ELSE last'.status = 404 /\ last'.key = NullKey]_vars

\* C14 (read operations are read-only): serving a listing, a stream url or a
\* raw url leaves the bucket, the table and both upload directories unchanged.
C14_ReadOnly ==
  [][Served({"list", "rawurl", "stream"})
       => UNCHANGED <<s3, videos, rawDir, outDir>>]_vars

C14_Witness ==
  /\ last.op = "stream" /\ last.status = 200
  /\ videos # {} /\ Exists(s3, last.key)

\* C15 (bounded transcode): every upload request that has been received
\* eventually answers, whether or not its ffmpeg process exits.
C15_BoundedTranscode ==
  \A r \in 1..MaxUploads : (up[r].pc # "idle") ~> Done(up[r])

\* C16 (strict step order without retry): the steps a request has run are a
\* prefix of stage, raw put, transcode, processed put, cleanup, insert (each
\* at most once, in that order); a failed step is the last one and the request
\* has answered 500; a request that answered 200 ran them all.
C16_StrictStepOrder ==
  \A r \in DOMAIN up :
    /\ IsPrefix(up[r].steps, FullPipeline)
    /\ up[r].failed # ""
         => /\ Done(up[r]) /\ up[r].resp.status = 500
            /\ up[r].steps[Len(up[r].steps)] = up[r].failed
    /\ Succeeded(up[r]) => up[r].steps = FullPipeline /\ up[r].failed = ""

C16_Witness ==
  \E r, q \in DOMAIN up :
    /\ Succeeded(up[r])
    /\ up[q].failed = "ffmpegExit" /\ Len(up[q].steps) = 4

\* an unlinkSync of the cleanup step of request r throws: a file is not there
UnlinkFails(r) ==
  up[r].path \notin rawDir \/ ~Exists(outDir, up[r].originalname)

\* C17 (cleanup failure is not propagated): when an unlink of the cleanup
\* step fails, the request still goes on to the metadata insert, with no
\* error recorded and no answer sent; no request ever fails at the cleanup.
C17_CleanupNotPropagated ==
  [][\A r \in DOMAIN up :
       /\ (up[r].pc = "cleanup" /\ up'[r] # up[r] /\ UnlinkFails(r))
            => /\ up'[r].pc = "insert" /\ up'[r].failed = ""
               /\ up'[r].resp = NoResp
       /\ up'[r].failed # "cleanup"]_vars

C17_Witness ==
  \E r, q \in DOMAIN up :
    /\ r # q /\ up[r].ino # 0 /\ up[r].ino = up[q].ino
    /\ Succeeded(up[r]) /\ Succeeded(up[q])

\* C18 (isolation of the transcoded local file): the bytes a request puts at
\* its processed key are the output of its own transcode alone, and no
\* request finds its transcoded file removed by another request's cleanup.
C18_TranscodeIsolation ==
  [][\A r \in DOMAIN up :
       /\ (up[r].pc = "putProcessed" /\ up'[r].pc = "cleanup")
            => s3'[processedKey(up[r].originalname)].body = OutBytes({r})
       /\ up'[r].failed = "putProcessed" => up'[r].err # "ENOENT"]_vars

\* C19 (no temporary files outlive a request): once a staged upload request
\* has answered, neither its staged raw file nor a transcoded file it wrote
\* is left in the upload directories.
C19_NoTempFilesOutlive ==
  \A r \in DOMAIN up :
    (Done(up[r]) /\ up[r].steps # <<>>)
      => /\ up[r].path \notin rawDir
         /\ ~(/\ Exists(outDir, up[r].originalname)
              /\ r \in outDir[up[r].originalname].src)

\* C20 (mutation requires authentication): every step that changes the
\* bucket or the table is a step of an upload or delete request whose bearer
\* token requireAuth verified.
C20_MutationRequiresAuth ==
  [][(s3' # s3 \/ videos' # videos)
       => \/ \E r \in DOMAIN up : up'[r] # up[r] /\ up'[r].user # ""
          \/ \E d \in DOMAIN del : del'[d] # del[d] /\ del'[d].user # ""]_vars

====
